---- MODULE Spec2Model ----
(***************************************************************************)
(* The Pubgrub solver of pkg/solver: the incompatibility store, the        *)
(* partial solution (the trail), unit propagation, conflict resolution     *)
(* and decision making, as the Go code computes them; and the wheel        *)
(* installer of the installer package with its rollback.                   *)
(*                                                                         *)
(* A Go pointer is modelled as a sequence: <<>> is nil, <<x>> points to x. *)
(***************************************************************************)
EXTENDS Integers, Sequences, FiniteSets, TLC

VARIABLES
    rootPackage,        \* Solver.rootPackage
    rootVersion,        \* Solver.rootVersion
    incompatibilities,  \* Solver.incompatibilities
    partialSolution,    \* Solver.partialSolution.Assignments (the trail)
    pc,                 \* "idle", or "UnitPropagation" while its loop runs
    caller,             \* who called UnitPropagation: "Solve" or "api"
    changed,            \* UnitPropagation's local set 'changed'
    scanned,            \* what the last iteration of UnitPropagation evaluated
    propagation,        \* pointer to the last UnitPropagationResult
    decision,           \* pointer to the last DecisionResult
    solveResult,        \* "none", "running", "solution" or "error"
    added,              \* the incompatibilities passed to AddIncompatibility
    solveCalls,         \* the trail and the store each call of Solve found
    perIterationLoopVar,\* the build: TRUE when a range variable is per iteration
    twin,               \* a second Solver, run on the same input (SpecTwin)
    assignments,        \* PartialSolution.Assignments of a PartialSolution
                        \* used on its own (SpecPartialSolution)
    called,             \* pointer to the record of the last call on it
    files,              \* the paths that exist in the file system (SpecWheel)
    install             \* the records of the wheel installations, in order

partialSolutionVars == <<assignments, called>>

installerVars == <<files, install>>

vars == <<rootPackage, rootVersion, incompatibilities, partialSolution, pc,
          caller, changed, scanned, propagation, decision, solveResult, added,
          solveCalls, perIterationLoopVar, twin, assignments, called, files,
          install>>

(***************************************************************************)
(* Bounds of the model.                                                    *)
(***************************************************************************)
MaxAdded == 2       \* AddIncompatibility is offered while the store is shorter
MaxStore == 5       \* no operation grows the store beyond this length
MaxTrail == 7       \* no operation grows the trail beyond this length
MaxGiven == 3       \* the incompatibilities a Solver stepped by hand is given
MaxAssignments == 3 \* AddAssignment is offered while the trail is shorter
MaxLevel == 2       \* the decision levels AddAssignment and Backtrack are given
MaxFailAt == 9      \* the file system calls of an installation that may fail
MaxInstallations == 1   \* the wheel installations of one behaviour
MaxTerms == 2       \* the terms of an incompatibility given to AlmostSatisfies

(***************************************************************************)
(* Terms, version constraints, incompatibilities, assignments.             *)
(***************************************************************************)
VersionConstraint(min, max, specific) ==
    [Min |-> min, Max |-> max, Specific |-> specific]

Term(package, version, negated) ==
    [Package |-> package, Version |-> version, Negated |-> negated]

Incompatibility(terms, cause) == [Terms |-> terms, Cause |-> cause]

Assignment(term, level, isDecision, cause) ==
    [Term |-> term, DecisionLevel |-> level, IsDecision |-> isDecision,
     Cause |-> cause]

IsSpecific(vc) == vc.Specific # ""

String(vc) ==
    IF IsSpecific(vc) THEN vc.Specific
    ELSE IF vc.Min # "" /\ vc.Max # "" THEN ">=" \o vc.Min \o " <" \o vc.Max
    ELSE IF vc.Min # "" THEN ">=" \o vc.Min
    ELSE IF vc.Max # "" THEN "<" \o vc.Max
    ELSE "any"

(***************************************************************************)
(* The partial solution.                                                   *)
(***************************************************************************)
AddAssignment(ps, assignment) == Append(ps, assignment)

\* GetDecisionLevel reading the first assignment of the trail.
GetDecisionLevelOfFirst(ps) ==
    IF Len(ps) = 0 THEN 0 ELSE ps[1].DecisionLevel

GetDecisionLevel(ps) ==
    IF Len(ps) = 0 THEN 0 ELSE ps[Len(ps)].DecisionLevel

\* Backtrack removing no more than the last assignment.
BacktrackLast(ps, level) ==
    IF Len(ps) > 0 /\ ps[Len(ps)].DecisionLevel > level
    THEN SubSeq(ps, 1, Len(ps) - 1)
    ELSE ps

RECURSIVE Backtrack(_, _)
Backtrack(ps, level) ==
    IF Len(ps) > 0 /\ ps[Len(ps)].DecisionLevel > level
    THEN Backtrack(SubSeq(ps, 1, Len(ps) - 1), level)
    ELSE ps

(***************************************************************************)
(* Satisfaction.                                                           *)
(***************************************************************************)
Inconclusive == 0
Satisfied == 1
Contradicted == 2

areCompatible(v1, v2) ==
    IF String(v1) = "any" \/ String(v2) = "any" THEN TRUE ELSE TRUE

satisfies(v1, v2) ==
    IF String(v2) = "any" THEN TRUE
    ELSE IF String(v1) = "any" THEN TRUE
    ELSE String(v1) = String(v2)

Satisfies(ps, term) ==
    IF \E i \in 1..Len(ps) :
          /\ ps[i].Term.Package = term.Package
          /\ ~areCompatible(ps[i].Term.Version, term.Version)
    THEN Contradicted
    ELSE IF \E i \in 1..Len(ps) :
          /\ ps[i].Term.Package = term.Package
          /\ ps[i].Term.Negated = term.Negated
          /\ satisfies(ps[i].Term.Version, term.Version)
    THEN Satisfied
    ELSE Inconclusive

SatisfiesIncompatibility(ps, incompatibility) ==
    LET terms == incompatibility.Terms
        satisfiedCount ==
            Cardinality({i \in 1..Len(terms) : Satisfies(ps, terms[i]) = Satisfied})
        contradictedCount ==
            Cardinality({i \in 1..Len(terms) : Satisfies(ps, terms[i]) = Contradicted})
    IN  IF contradictedCount > 0 THEN Contradicted
        ELSE IF satisfiedCount = Len(terms) THEN Satisfied
        ELSE Inconclusive

\* unsatisfiedTerm = &term takes the address of the range variable. Where the
\* range variable is per iteration the pointer keeps the first Inconclusive
\* term; where the loop has one variable, the pointer reads, after the loop,
\* the last term the loop assigned to it.
AlmostSatisfies(ps, incompatibility, perIteration) ==
    LET terms == incompatibility.Terms
        satisfiedCount ==
            Cardinality({i \in 1..Len(terms) : Satisfies(ps, terms[i]) = Satisfied})
        inconclusive ==
            {i \in 1..Len(terms) : Satisfies(ps, terms[i]) = Inconclusive}
        first == CHOOSE i \in inconclusive : \A j \in inconclusive : i <= j
    IN  IF satisfiedCount = Len(terms) - 1 /\ inconclusive # {}
        THEN <<IF perIteration THEN terms[first] ELSE terms[Len(terms)]>>
        ELSE <<>>

(***************************************************************************)
(* Conflict resolution.                                                    *)
(***************************************************************************)
isRootCause(incompatibility, root) ==
    \/ Len(incompatibility.Terms) = 0
    \/ /\ Len(incompatibility.Terms) = 1
       /\ incompatibility.Terms[1].Package = root
       /\ ~incompatibility.Terms[1].Negated

assignmentSatisfiesIncompatibility(assignment, incompatibility) == FALSE

assignmentPlusSatisfierSatisfiesIncompatibility(assignment, satisfier, incompatibility) ==
    FALSE

findSatisfier(ps, incompatibility) ==
    LET hits == {i \in 1..Len(ps) :
                    assignmentSatisfiesIncompatibility(ps[i], incompatibility)}
        last == CHOOSE i \in hits : \A j \in hits : j <= i
    IN  IF hits = {} THEN <<>> ELSE <<ps[last]>>

\* '&assignment == satisfier' compares the address of the range variable with
\* the address of findSatisfier's local copy: they are never the same object,
\* so satisfierIndex stays -1 and the function returns nil.
findPreviousSatisfier(ps, incompatibility, satisfier) == <<>>

getPreviousSatisfierLevel(previousSatisfier) ==
    IF previousSatisfier = <<>> THEN 1 ELSE previousSatisfier[1].DecisionLevel

\* determineBacktrackLevel going below the level of the root decision.
determineBacktrackLevelBelowRoot(incompatibility) == -1

\* determineBacktrackLevel keeping the first decision level.
determineBacktrackLevelOfOne(incompatibility) == 1

determineBacktrackLevel(incompatibility) == 0

backtrackFromConflict(ps, incompatibility) ==
    Backtrack(ps, determineBacktrackLevel(incompatibility))

createPriorCause(incompatibility, satisfier) ==
    LET causeTerms ==
            IF satisfier.Cause = <<>> THEN <<>>
            ELSE SelectSeq(satisfier.Cause[1].Terms,
                           LAMBDA t : t.Package # satisfier.Term.Package)
    IN  Incompatibility(incompatibility.Terms \o causeTerms, <<incompatibility>>)

\* Returns the pointer resolveConflict returns and the trail it leaves.
RECURSIVE resolveConflict(_, _, _)
resolveConflict(ps, incompatibility, root) ==
    IF isRootCause(incompatibility, root)
    THEN [Incompatibility |-> <<incompatibility>>,
          ps |-> backtrackFromConflict(ps, incompatibility)]
    ELSE LET satisfier == findSatisfier(ps, incompatibility)
             previousSatisfier ==
                 findPreviousSatisfier(ps, incompatibility, satisfier)
             previousSatisfierLevel ==
                 getPreviousSatisfierLevel(previousSatisfier)
         IN  IF satisfier = <<>>
             THEN [Incompatibility |-> <<>>, ps |-> ps]
             ELSE IF \/ satisfier[1].IsDecision
                     \/ previousSatisfierLevel # satisfier[1].DecisionLevel
             THEN [Incompatibility |-> <<incompatibility>>,
                   ps |-> backtrackFromConflict(ps, incompatibility)]
             ELSE resolveConflict(
                      ps, createPriorCause(incompatibility, satisfier[1]), root)

(***************************************************************************)
(* Unit propagation.                                                       *)
(***************************************************************************)
getIncompatibilitiesForPackage(store, packageName) ==
    SelectSeq(store,
              LAMBDA inc : \E i \in 1..Len(inc.Terms) :
                               inc.Terms[i].Package = packageName)

negated(term) == [term EXCEPT !.Negated = ~term.Negated]

Evaluated(incompatibility, result, resolved, derived) ==
    [Incompatibility |-> incompatibility, Result |-> result,
     Resolved |-> resolved, Derived |-> derived]

Step(ps, chg, success, conflict, entry) ==
    [ps |-> ps, changed |-> chg, Success |-> success, Conflict |-> conflict,
     entry |-> entry]

\* The body of 'for i := len(incompatibilities) - 1; i >= 0; i--' for one
\* incompatibility: the trail and 'changed' it leaves, whether it returns
\* Success = false from inside the loop, and what it evaluated.
processIncompatibility(incompatibility, ps, chg, root, perIteration) ==
    LET result == SatisfiesIncompatibility(ps, incompatibility)
    IN  IF result = Satisfied
        THEN LET rc == resolveConflict(ps, incompatibility, root)
                 unsatisfiedTerm ==
                     AlmostSatisfies(rc.ps, rc.Incompatibility[1], perIteration)
             IN  IF rc.Incompatibility = <<>>
                 THEN Step(rc.ps, chg, FALSE, <<incompatibility>>,
                           Evaluated(incompatibility, result, <<>>, <<>>))
                 ELSE IF unsatisfiedTerm # <<>>
                 THEN Step(AddAssignment(rc.ps,
                               Assignment(negated(unsatisfiedTerm[1]),
                                          GetDecisionLevel(rc.ps), FALSE,
                                          rc.Incompatibility)),
                           {unsatisfiedTerm[1].Package}, TRUE, <<>>,
                           Evaluated(incompatibility, result,
                                     rc.Incompatibility,
                                     <<negated(unsatisfiedTerm[1])>>))
                 ELSE Step(rc.ps, chg, TRUE, <<>>,
                           Evaluated(incompatibility, result,
                                     rc.Incompatibility, <<>>))
        ELSE IF result = Inconclusive
        THEN LET unsatisfiedTerm ==
                     AlmostSatisfies(ps, incompatibility, perIteration)
             IN  IF unsatisfiedTerm # <<>>
                 THEN Step(AddAssignment(ps,
                               Assignment(negated(unsatisfiedTerm[1]),
                                          GetDecisionLevel(ps), FALSE,
                                          <<incompatibility>>)),
                           chg \cup {unsatisfiedTerm[1].Package}, TRUE, <<>>,
                           Evaluated(incompatibility, result, <<>>,
                                     <<negated(unsatisfiedTerm[1])>>))
                 ELSE Step(ps, chg, TRUE, <<>>,
                           Evaluated(incompatibility, result, <<>>, <<>>))
        ELSE Step(ps, chg, TRUE, <<>>,
                  Evaluated(incompatibility, result, <<>>, <<>>))

\* The inner loop of UnitPropagation from index i down to 1 (Go: from i-1
\* down to 0): what the loop leaves, and the incompatibilities it evaluated,
\* in order. (The bound variable 'step' holds the value of one pass of the
\* body, so that it is computed once.)
RECURSIVE processIncompatibilities(_, _, _, _, _, _, _)
processIncompatibilities(list, i, ps, chg, root, perIteration, log) ==
    IF i = 0
    THEN [ps |-> ps, changed |-> chg, Success |-> TRUE, Conflict |-> <<>>,
          scanned |-> log]
    ELSE CHOOSE out \in
             {IF step.Success
              THEN processIncompatibilities(list, i - 1, step.ps, step.changed,
                                            root, perIteration,
                                            Append(log, step.entry))
              ELSE [ps |-> step.ps, changed |-> step.changed,
                    Success |-> FALSE, Conflict |-> step.Conflict,
                    scanned |-> Append(log, step.entry)]
              : step \in {processIncompatibility(list[i], ps, chg, root,
                                                 perIteration)}} : TRUE

\* One iteration of 'for len(changed) > 0': currentPackage is the element
\* the range over the map yields, which is removed from 'changed'.
propagatePackage(store, ps, chg, currentPackage, root, perIteration) ==
    CHOOSE out \in
        {processIncompatibilities(list, Len(list), ps, chg \ {currentPackage},
                                  root, perIteration, <<>>)
         : list \in {getIncompatibilitiesForPackage(store, currentPackage)}}
        : TRUE

UnitPropagationResult(success, conflict) ==
    [Success |-> success, Conflict |-> conflict]

(***************************************************************************)
(* Decision making.                                                        *)
(***************************************************************************)
\* findPackageForDecision without its hasDecision check.
findPackageForDecisionUnchecked(ps) ==
    LET pending ==
            {i \in 1..Len(ps) : ~ps[i].IsDecision /\ ~ps[i].Term.Negated}
        first == CHOOSE i \in pending : \A j \in pending : i <= j
    IN  IF pending = {} THEN "" ELSE ps[first].Term.Package

findPackageForDecision(ps) ==
    LET pending ==
            {i \in 1..Len(ps) :
                /\ ~ps[i].IsDecision
                /\ ~ps[i].Term.Negated
                /\ ~\E j \in 1..Len(ps) :
                       /\ ps[j].IsDecision
                       /\ ps[j].Term.Package = ps[i].Term.Package}
        first == CHOOSE i \in pending : \A j \in pending : i <= j
    IN  IF pending = {} THEN "" ELSE ps[first].Term.Package

getTermForPackage(ps, packageName) ==
    LET terms == SelectSeq(ps, LAMBDA a : a.Term.Package = packageName)
    IN  IF Len(terms) = 0 THEN <<>> ELSE <<terms[1].Term>>

\* findMatchingVersion finding no version.
findMatchingVersionOfNone(packageName, term) == ""

findMatchingVersion(packageName, term) ==
    IF IsSpecific(term.Version) THEN term.Version.Specific ELSE "1.0.0"

dependencyIncompatibility(packageName, version) ==
    Incompatibility(
        <<Term(packageName, VersionConstraint("", "", version), FALSE),
          Term("dependency", VersionConstraint("1.0.0", "", ""), TRUE)>>,
        <<>>)

\* addDependenciesForVersion storing the dependencies in place of the store.
addDependenciesForVersionOverwriting(store, packageName, version) ==
    <<dependencyIncompatibility(packageName, version)>>

addDependenciesForVersion(store, packageName, version) ==
    Append(store, dependencyIncompatibility(packageName, version))

DecisionResult(success, nextPackage, error) ==
    [Success |-> success, NextPackage |-> nextPackage, Error |-> error]

\* The DecisionResult, with the trail and the store DecisionMaking leaves;
\* decidedWith is the store at its call of AddAssignment, which comes after
\* addDependenciesForVersion (the store it found, where it decides nothing).
DecisionMaking(ps, store) ==
    LET packageName == findPackageForDecision(ps)
        term == getTermForPackage(ps, packageName)
        version == findMatchingVersion(packageName, term[1])
    IN  IF packageName = ""
        THEN [result |-> DecisionResult(TRUE, "", ""), ps |-> ps,
              store |-> store, decidedWith |-> store]
        ELSE IF term = <<>>
        THEN [result |-> DecisionResult(FALSE, "", "no term found for package"),
              ps |-> ps, store |-> store, decidedWith |-> store]
        ELSE IF version = ""
        THEN [result |-> DecisionResult(FALSE, packageName, ""), ps |-> ps,
              store |-> Append(store, Incompatibility(<<term[1]>>, <<>>)),
              decidedWith |-> store]
        ELSE [result |-> DecisionResult(FALSE, packageName, ""),
              ps |-> AddAssignment(ps,
                        Assignment(
                            Term(packageName,
                                 VersionConstraint("", "", version), FALSE),
                            GetDecisionLevel(ps) + 1, TRUE, <<>>)),
              store |-> addDependenciesForVersion(store, packageName, version),
              decidedWith |->
                  addDependenciesForVersion(store, packageName, version)]

(***************************************************************************)
(* Solve.                                                                  *)
(***************************************************************************)
rootAssignment(root, version) ==
    Assignment(Term(root, VersionConstraint("", "", version), FALSE), 0, TRUE,
               <<>>)

\* addRootIncompatibilities adding nothing.
addRootIncompatibilitiesOfNone(store, root, version) == store

addRootIncompatibilities(store, root, version) ==
    Append(store, dependencyIncompatibility(root, version))

\* The trail and the store initializeRootPackage leaves; decidedWith is the
\* store at its call of AddAssignment, which comes before
\* addRootIncompatibilities.
initializeRootPackage(ps, store, root, version) ==
    [ps |-> AddAssignment(ps, rootAssignment(root, version)),
     store |-> addRootIncompatibilities(store, root, version),
     decidedWith |-> store]

(***************************************************************************)
(* The error report. A line of the report is the string the code formats.  *)
(***************************************************************************)
RECURSIVE Join(_, _)
Join(strs, sep) ==
    IF Len(strs) = 0 THEN ""
    ELSE IF Len(strs) = 1 THEN strs[1]
    ELSE strs[1] \o sep \o Join(Tail(strs), sep)

formatTerm(term) ==
    IF term.Negated
    THEN "not " \o term.Package \o " " \o String(term.Version)
    ELSE term.Package \o " " \o String(term.Version)

formatTerms(terms) == [i \in 1..Len(terms) |-> formatTerm(terms[i])]

formatExternalIncompatibility(incompatibility, root) ==
    IF Len(incompatibility.Terms) = 1
    THEN LET term == incompatibility.Terms[1]
         IN  IF term.Package = root
             THEN "The root package " \o String(term.Version)
                      \o " cannot be selected"
             ELSE "Package " \o term.Package \o " " \o String(term.Version)
                      \o " cannot be selected"
    ELSE "Dependency conflict: "
             \o Join(formatTerms(incompatibility.Terms), " and ")

formatIncompatibility(incompatibility, root) ==
    IF Len(incompatibility.Terms) = 1
    THEN LET term == incompatibility.Terms[1]
         IN  IF term.Package = root
             THEN "root " \o String(term.Version)
             ELSE term.Package \o " " \o String(term.Version)
    ELSE "{" \o Join(formatTerms(incompatibility.Terms), ", ") \o "}"

formatDerivedIncompatibility(incompatibility, cause, root) ==
    "Because " \o formatIncompatibility(cause, root) \o ", "
        \o formatIncompatibility(incompatibility, root)

formatTwoCauseIncompatibility(incompatibility, cause1, cause2, root) ==
    "Because " \o formatIncompatibility(cause1, root) \o " and "
        \o formatIncompatibility(cause2, root) \o ", "
        \o formatIncompatibility(incompatibility, root)

DerivationNode(incompatibility, causes, outgoingEdges, lineNumber) ==
    [Incompatibility |-> incompatibility, Causes |-> causes,
     OutgoingEdges |-> outgoingEdges, LineNumber |-> lineNumber]

buildDerivationGraph(root) ==
    DerivationNode(root, <<>>, IF root.Cause # <<>> THEN 1 ELSE 0, 0)

\* The lines of the report after generateReportLines on the node.
RECURSIVE generateReportLines(_, _, _)
generateReportLines(node, lines, root) ==
    IF Len(node.Causes) = 0
    THEN Append(lines, formatExternalIncompatibility(node.Incompatibility, root))
    ELSE IF Len(node.Causes) = 1
    THEN Append(generateReportLines(node.Causes[1], lines, root),
                formatDerivedIncompatibility(node.Incompatibility,
                                             node.Causes[1].Incompatibility,
                                             root))
    ELSE IF Len(node.Causes) = 2
    THEN Append(generateReportLines(
                    node.Causes[2],
                    generateReportLines(node.Causes[1], lines, root), root),
                formatTwoCauseIncompatibility(node.Incompatibility,
                                              node.Causes[1].Incompatibility,
                                              node.Causes[2].Incompatibility,
                                              root))
    ELSE lines

ErrorReport(lines) == [Lines |-> lines]

GenerateErrorReport(rootIncompatibility, root) ==
    ErrorReport(
        generateReportLines(buildDerivationGraph(rootIncompatibility), <<>>,
                            root))

(***************************************************************************)
(* The inputs the model draws from.                                        *)
(***************************************************************************)
RootPackages == {"root"}
RootVersions == {"1.0.0"}
Packages == {"root", "foo", "dependency"}

Exactly(version) == VersionConstraint("", "", version)
AtLeast(version) == VersionConstraint(version, "", "")

\* The incompatibilities a caller may pass to AddIncompatibility.
Offered(root, version) ==
    { Incompatibility(<<>>, <<>>),
      Incompatibility(<<Term(root, Exactly(version), FALSE)>>, <<>>),
      Incompatibility(<<Term(root, Exactly(version), TRUE)>>, <<>>),
      Incompatibility(<<Term(root, Exactly(version), FALSE),
                        Term("foo", AtLeast("1.0.0"), TRUE)>>, <<>>),
      Incompatibility(<<Term("foo", AtLeast("1.0.0"), TRUE),
                        Term(root, Exactly(version), FALSE)>>, <<>>),
      Incompatibility(<<Term("foo", AtLeast("1.0.0"), FALSE)>>, <<>>),
      Incompatibility(<<Term("dependency", AtLeast("1.0.0"), FALSE)>>, <<>>) }

\* The lists of incompatibilities a caller may have added before Solve.
Inputs(root, version) ==
    UNION {[1..n -> Offered(root, version)] : n \in 0..MaxAdded}

NewTwin == [incompatibilities |-> <<>>, partialSolution |-> <<>>,
            pc |-> "idle", changed |-> {}, solveResult |-> "none"]

(***************************************************************************)
(* The wheel installer. A path is the sequence of its components; the file *)
(* system is the set of the paths that exist. A call that can fail (Open,  *)
(* MkdirAll, Create, Copy) is counted in 'calls', and the call number      *)
(* failAt is the one that fails (none when failAt is 0 or beyond the last  *)
(* call).                                                                  *)
(***************************************************************************)
Prefixes(path) == {SubSeq(path, 1, n) : n \in 1..Len(path)}

IsUnder(path, dir) ==
    Len(dir) <= Len(path) /\ SubSeq(path, 1, Len(dir)) = dir

Dir(path) == SubSeq(path, 1, Len(path) - 1)

\* os.MkdirAll creates the directory and every missing parent, and succeeds
\* on a directory that exists; os.Create creates or truncates the file;
\* os.RemoveAll removes the path and everything under it.
MkdirAll(fs, path) == fs \cup Prefixes(path)

Create(fs, path) == fs \cup {path}

RemoveAll(fs, path) == {p \in fs : ~IsUnder(p, path)}

Tracking(fs, createdPaths, calls, err) ==
    [files |-> fs, createdPaths |-> createdPaths, calls |-> calls, err |-> err]

\* A call that changes nothing but may fail (zip's file.Open, io.Copy).
mayFail(st, failAt) ==
    [st EXCEPT !.calls = @ + 1, !.err = (st.calls + 1 = failAt)]

trackMkdirAll(st, path, failAt) ==
    IF st.calls + 1 = failAt
    THEN [st EXCEPT !.calls = @ + 1, !.err = TRUE]
    ELSE [st EXCEPT !.calls = @ + 1, !.files = MkdirAll(@, path),
                    !.createdPaths = Append(@, path)]

trackCreateFile(st, path, failAt) ==
    IF st.calls + 1 = failAt
    THEN [st EXCEPT !.calls = @ + 1, !.err = TRUE]
    ELSE [st EXCEPT !.calls = @ + 1, !.files = Create(@, path),
                    !.createdPaths = Append(@, path)]

extractFileTracked(st, targetPath, failAt) ==
    LET opened == mayFail(st, failAt)
        created == trackCreateFile(opened, targetPath, failAt)
    IN  IF opened.err THEN opened
        ELSE IF created.err THEN created
        ELSE mayFail(created, failAt)

\* extractWheel from the entry number i on; the entries of the wheel are
\* those outside its .dist-info directory.
RECURSIVE extractWheel(_, _, _, _, _)
extractWheel(entries, i, sitePackages, st, failAt) ==
    IF i > Len(entries) \/ st.err THEN st
    ELSE LET file == entries[i]
             targetPath == sitePackages \o file.Name
             parent == trackMkdirAll(st, Dir(targetPath), failAt)
         IN  IF file.IsDir
             THEN extractWheel(entries, i + 1, sitePackages,
                               trackMkdirAll(st, targetPath, failAt), failAt)
             ELSE IF parent.err THEN parent
             ELSE extractWheel(entries, i + 1, sitePackages,
                               extractFileTracked(parent, targetPath, failAt),
                               failAt)

\* filepath.Join(sitePackages, "") is sitePackages itself.
installMetadata(sitePackages, distInfoName, st, failAt) ==
    LET distInfoDir == IF distInfoName = "" THEN sitePackages
                       ELSE Append(sitePackages, distInfoName)
        dir == trackMkdirAll(st, distInfoDir, failAt)
        metadata == trackCreateFile(dir, Append(distInfoDir, "METADATA"), failAt)
        wheel == trackCreateFile(metadata, Append(distInfoDir, "WHEEL"), failAt)
    IN  IF dir.err THEN dir
        ELSE IF metadata.err THEN metadata
        ELSE IF wheel.err THEN wheel
        ELSE trackCreateFile(wheel, Append(distInfoDir, "RECORD"), failAt)

\* The path getSitePackagesPath returns and the file system it leaves; it
\* creates the directory without tracking it.
getSitePackagesPath(fs, venvPath, mkdirFails) ==
    LET primary == <<venvPath, "lib", "python3.11", "site-packages">>
        fallback == <<venvPath, "site-packages">>
    IN  IF mkdirFails
        THEN [path |-> fallback, files |-> MkdirAll(fs, fallback)]
        ELSE [path |-> primary, files |-> MkdirAll(fs, primary)]

RECURSIVE rollbackCreatedPaths(_, _, _)
rollbackCreatedPaths(fs, createdPaths, i) ==
    IF i = 0 THEN fs
    ELSE rollbackCreatedPaths(RemoveAll(fs, createdPaths[i]), createdPaths, i - 1)

\* What extraction and metadata installation leave, before any rollback.
InstallWheelTracked(fs, venvPath, wheel, mkdirFails, failAt) ==
    LET sitePackages == getSitePackagesPath(fs, venvPath, mkdirFails)
        extracted == extractWheel(wheel.Entries, 1, sitePackages.path,
                                  Tracking(sitePackages.files, <<>>, 0, FALSE),
                                  failAt)
    IN  IF extracted.err THEN extracted
        ELSE installMetadata(sitePackages.path, wheel.DistInfoName, extracted,
                             failAt)

\* The file system a failed or successful installation leaves, and its
\* record.
installed(handler, fs, venvPath, wheel, mkdirFails, failAt) ==
    LET st == InstallWheelTracked(fs, venvPath, wheel, mkdirFails, failAt)
    IN  [handler |-> handler, wheel |-> wheel, before |-> fs,
         started |-> TRUE, err |-> st.err, createdPaths |-> st.createdPaths,
         files |-> IF st.err
                   THEN rollbackCreatedPaths(st.files, st.createdPaths,
                                             Len(st.createdPaths))
                   ELSE st.files]

\* The installation returned an error before it touched the file system.
notStarted(handler, fs, wheel) ==
    [handler |-> handler, wheel |-> wheel, before |-> fs, started |-> FALSE,
     err |-> TRUE, createdPaths |-> <<>>, files |-> fs]

\* No PartialSolution is used on its own, no wheel is being installed.
NoPartialSolution == assignments = <<>> /\ called = <<>>

NoInstaller == files = {} /\ install = <<>>

VenvPath == "venv"

Entry(name, isDir) == [Name |-> name, IsDir |-> isDir]

\* The wheels offered: their entries outside .dist-info, in the order of the
\* archive, and the dist-info name their METADATA gives ("" when it has no
\* Name or Version line).
Wheels ==
    { [Entries |-> <<Entry(<<"top.py">>, FALSE)>>,
       DistInfoName |-> "top-1.0.dist-info"],
      [Entries |-> <<Entry(<<"pkg">>, TRUE), Entry(<<"pkg", "mod.py">>, FALSE)>>,
       DistInfoName |-> "pkg-1.0.dist-info"],
      [Entries |-> <<Entry(<<"pkg", "sub", "mod.py">>, FALSE)>>,
       DistInfoName |-> ""] }

\* The file systems an installation may start from: the virtual
\* environment alone, or with its site-packages, empty or holding the
\* module of another package, or a directory 'pkg' with a file of its own.
InitialFiles ==
    LET venv == {<<VenvPath>>}
        sitePackages == <<VenvPath, "lib", "python3.11", "site-packages">>
        withSitePackages == venv \cup Prefixes(sitePackages)
    IN  { venv,
          withSitePackages,
          withSitePackages \cup {Append(sitePackages, "other.py")},
          withSitePackages \cup {Append(sitePackages, "pkg"),
                                 sitePackages \o <<"pkg", "old.py">>} }

(***************************************************************************)
(* The state after NewSolver.                                              *)
(***************************************************************************)
NewSolver ==
    /\ rootPackage \in RootPackages
    /\ rootVersion \in RootVersions
    /\ incompatibilities = <<>>
    /\ partialSolution = <<>>
    /\ pc = "idle"
    /\ caller = ""
    /\ changed = {}
    /\ scanned = <<>>
    /\ propagation = <<>>
    /\ decision = <<>>
    /\ solveResult = "none"
    /\ added = <<>>
    /\ solveCalls = <<>>
    /\ perIterationLoopVar \in BOOLEAN
    /\ twin = NewTwin

Init ==
    /\ NewSolver
    /\ NoPartialSolution
    /\ NoInstaller

(***************************************************************************)
(* Solve and UnitPropagation, as steps on the state of one Solver.         *)
(***************************************************************************)
Outcome(ps, store, chg, position, result, returned, decided, log) ==
    [ps |-> ps, store |-> store, changed |-> chg, pc |-> position,
     solveResult |-> result, returned |-> returned, decided |-> decided,
     scanned |-> log]

\* Solve up to its first call of UnitPropagation, which sets 'changed'.
solveEntry(ps, store, root, version) ==
    LET init == initializeRootPackage(ps, store, root, version)
    IN  Outcome(init.ps, init.store, {root}, "UnitPropagation", "running",
                <<>>, <<>>, <<>>)

\* UnitPropagation has returned Success = true to Solve: Solve goes on with
\* DecisionMaking and either returns or calls UnitPropagation again.
solveAfterPropagation(ps, store, result) ==
    LET d == DecisionMaking(ps, store)
        returned == <<UnitPropagationResult(TRUE, <<>>)>>
    IN  IF d.result.Success
        THEN Outcome(d.ps, d.store, {}, "idle", "solution", returned,
                     <<d.result>>, <<>>)
        ELSE IF d.result.Error # ""
        THEN Outcome(d.ps, d.store, {}, "idle", "error", returned,
                     <<d.result>>, <<>>)
        ELSE Outcome(d.ps, d.store, {d.result.NextPackage}, "UnitPropagation",
                     result, returned, <<d.result>>, <<>>)

\* One evaluation of 'for len(changed) > 0': either the loop ends and
\* UnitPropagation returns Success = true, or one package is taken out of
\* 'changed' (any one: the range over a map yields its keys in no fixed
\* order) and its incompatibilities are processed.
unitPropagationLoop(ps, store, chg, from, result, root, perIteration) ==
    IF chg = {}
    THEN IF from = "Solve"
         THEN {solveAfterPropagation(ps, store, result)}
         ELSE {Outcome(ps, store, {}, "idle", result,
                       <<UnitPropagationResult(TRUE, <<>>)>>, <<>>, <<>>)}
    ELSE {LET r == propagatePackage(store, ps, chg, currentPackage, root,
                                    perIteration)
          IN  IF r.Success
              THEN Outcome(r.ps, store, r.changed, "UnitPropagation", result,
                           <<>>, <<>>, r.scanned)
              ELSE Outcome(r.ps, store, {}, "idle",
                           IF from = "Solve" THEN "error" ELSE result,
                           <<UnitPropagationResult(FALSE, r.Conflict)>>, <<>>,
                           r.scanned)
          : currentPackage \in chg}

(***************************************************************************)
(* The operations of the Solver.                                           *)
(***************************************************************************)
AddIncompatibility(incompatibility) ==
    /\ pc = "idle"
    /\ Len(incompatibilities) < MaxAdded
    /\ incompatibilities' = Append(incompatibilities, incompatibility)
    /\ added' = Append(added, incompatibility)
    /\ UNCHANGED <<rootPackage, rootVersion, partialSolution, pc, caller,
                   changed, scanned, propagation, decision, solveResult,
                   solveCalls, perIterationLoopVar, twin>>
    /\ UNCHANGED <<partialSolutionVars, installerVars>>

Solve ==
    /\ pc = "idle"
    /\ LET o == solveEntry(partialSolution, incompatibilities, rootPackage,
                           rootVersion)
       IN  /\ Len(o.ps) <= MaxTrail
           /\ Len(o.store) <= MaxStore
           /\ partialSolution' = o.ps
           /\ incompatibilities' = o.store
           /\ changed' = o.changed
           /\ pc' = o.pc
           /\ solveResult' = o.solveResult
           /\ scanned' = o.scanned
    /\ caller' = "Solve"
    /\ solveCalls' = Append(solveCalls, [ps |-> partialSolution,
                                         store |-> incompatibilities])
    /\ UNCHANGED <<rootPackage, rootVersion, propagation, decision, added,
                   perIterationLoopVar, twin>>
    /\ UNCHANGED <<partialSolutionVars, installerVars>>

\* A caller's own call of UnitPropagation, up to the loop.
UnitPropagation(packageName) ==
    /\ pc = "idle"
    /\ pc' = "UnitPropagation"
    /\ caller' = "api"
    /\ changed' = {packageName}
    /\ scanned' = <<>>
    /\ UNCHANGED <<rootPackage, rootVersion, incompatibilities,
                   partialSolution, propagation, decision, solveResult, added,
                   solveCalls, perIterationLoopVar, twin>>
    /\ UNCHANGED <<partialSolutionVars, installerVars>>

UnitPropagationLoop ==
    /\ pc = "UnitPropagation"
    /\ \E o \in unitPropagationLoop(partialSolution, incompatibilities,
                                    changed, caller, solveResult, rootPackage,
                                    perIterationLoopVar) :
           /\ Len(o.ps) <= MaxTrail
           /\ Len(o.store) <= MaxStore
           /\ partialSolution' = o.ps
           /\ incompatibilities' = o.store
           /\ changed' = o.changed
           /\ pc' = o.pc
           /\ solveResult' = o.solveResult
           /\ scanned' = o.scanned
           /\ propagation' = IF o.returned = <<>> THEN propagation
                             ELSE o.returned
           /\ decision' = IF o.decided = <<>> THEN decision ELSE o.decided
    /\ UNCHANGED <<rootPackage, rootVersion, caller, added, solveCalls,
                   perIterationLoopVar, twin>>
    /\ UNCHANGED <<partialSolutionVars, installerVars>>

\* A caller's own call of DecisionMaking.
CallDecisionMaking ==
    /\ pc = "idle"
    /\ LET d == DecisionMaking(partialSolution, incompatibilities)
       IN  /\ Len(d.ps) <= MaxTrail
           /\ Len(d.store) <= MaxStore
           /\ decision' = <<d.result>>
           /\ partialSolution' = d.ps
           /\ incompatibilities' = d.store
    /\ UNCHANGED <<rootPackage, rootVersion, pc, caller, changed, scanned,
                   propagation, solveResult, added, solveCalls,
                   perIterationLoopVar, twin>>
    /\ UNCHANGED <<partialSolutionVars, installerVars>>

Next ==
    \/ \E incompatibility \in Offered(rootPackage, rootVersion) :
           AddIncompatibility(incompatibility)
    \/ Solve
    \/ \E packageName \in Packages : UnitPropagation(packageName)
    \/ UnitPropagationLoop
    \/ CallDecisionMaking

Spec == Init /\ [][Next]_vars

(***************************************************************************)
(* NewSolver, some calls of AddIncompatibility, then one call of Solve.    *)
(* Solve is sequential code: once it has called UnitPropagation the loop   *)
(* goes on running until it returns, which is the fairness stated.         *)
(***************************************************************************)
InitAdded ==
    /\ rootPackage \in RootPackages
    /\ rootVersion \in RootVersions
    /\ \E input \in Inputs(rootPackage, rootVersion) :
           /\ incompatibilities = input
           /\ added = input
           /\ twin = [NewTwin EXCEPT !.incompatibilities = input]
    /\ partialSolution = <<>>
    /\ pc = "idle"
    /\ caller = ""
    /\ changed = {}
    /\ scanned = <<>>
    /\ propagation = <<>>
    /\ decision = <<>>
    /\ solveResult = "none"
    /\ solveCalls = <<>>
    /\ perIterationLoopVar \in BOOLEAN
    /\ NoPartialSolution
    /\ NoInstaller

SolveOnce ==
    /\ solveCalls = <<>>
    /\ Solve

NextSolve ==
    \/ SolveOnce
    \/ UnitPropagationLoop

SpecSolve ==
    InitAdded /\ [][NextSolve]_vars /\ WF_vars(UnitPropagationLoop)

(***************************************************************************)
(* Two Solvers given the same root and the same added incompatibilities,   *)
(* each running Solve once.                                                *)
(***************************************************************************)
TwinApply(o) ==
    /\ Len(o.ps) <= MaxTrail
    /\ Len(o.store) <= MaxStore
    /\ twin' = [partialSolution |-> o.ps, incompatibilities |-> o.store,
                changed |-> o.changed, pc |-> o.pc,
                solveResult |-> o.solveResult]
    /\ UNCHANGED <<rootPackage, rootVersion, incompatibilities,
                   partialSolution, pc, caller, changed, scanned, propagation,
                   decision, solveResult, added, solveCalls,
                   perIterationLoopVar>>
    /\ UNCHANGED <<partialSolutionVars, installerVars>>

TwinSolve ==
    /\ twin.pc = "idle"
    /\ twin.solveResult = "none"
    /\ TwinApply(solveEntry(twin.partialSolution, twin.incompatibilities,
                            rootPackage, rootVersion))

TwinUnitPropagationLoop ==
    /\ twin.pc = "UnitPropagation"
    /\ \E o \in unitPropagationLoop(twin.partialSolution,
                                    twin.incompatibilities, twin.changed,
                                    "Solve", twin.solveResult, rootPackage,
                                    perIterationLoopVar) :
           TwinApply(o)

NextTwin ==
    \/ SolveOnce
    \/ UnitPropagationLoop
    \/ TwinSolve
    \/ TwinUnitPropagationLoop

SpecTwin == InitAdded /\ [][NextTwin]_vars

(***************************************************************************)
(* A Solver stepped by hand: NewSolver, some calls of AddIncompatibility,  *)
(* then UnitPropagation and DecisionMaking called in any order (Solve is   *)
(* not called, so the trail holds no root decision at level 0).            *)
(***************************************************************************)
\* The incompatibilities such a Solver is given: single terms on the root.
GivenToCalls(root, version) ==
    { Incompatibility(<<Term(root, Exactly(version), FALSE)>>, <<>>),
      Incompatibility(<<Term(root, Exactly(version), TRUE)>>, <<>>),
      Incompatibility(<<Term(root, AtLeast(version), TRUE)>>, <<>>) }

CallInputs(root, version) ==
    UNION {[1..n -> GivenToCalls(root, version)] : n \in 0..MaxGiven}

InitCalls ==
    /\ rootPackage \in RootPackages
    /\ rootVersion \in RootVersions
    /\ \E input \in CallInputs(rootPackage, rootVersion) :
           /\ incompatibilities = input
           /\ added = input
           /\ twin = [NewTwin EXCEPT !.incompatibilities = input]
    /\ partialSolution = <<>>
    /\ pc = "idle"
    /\ caller = ""
    /\ changed = {}
    /\ scanned = <<>>
    /\ propagation = <<>>
    /\ decision = <<>>
    /\ solveResult = "none"
    /\ solveCalls = <<>>
    /\ perIterationLoopVar \in BOOLEAN
    /\ NoPartialSolution
    /\ NoInstaller

NextCalls ==
    \/ \E packageName \in Packages : UnitPropagation(packageName)
    \/ UnitPropagationLoop
    \/ CallDecisionMaking

SpecCalls == InitCalls /\ [][NextCalls]_vars

(***************************************************************************)
(* A PartialSolution used on its own, as the tests of the package use it:  *)
(* AddAssignment, Backtrack and Satisfies called in any order.             *)
(***************************************************************************)
\* The terms of the assignments given to AddAssignment.
AssignedTerms ==
    { Term("foo", Exactly("1.0.0"), FALSE),
      Term("foo", Exactly("2.0.0"), FALSE),
      Term("foo", Exactly("1.0.0"), TRUE) }

\* The terms given to Satisfies.
QueriedTerms ==
    AssignedTerms \cup { Term("foo", Exactly("2.0.0"), TRUE),
                         Term("foo", AtLeast("1.0.0"), FALSE),
                         Term("foo", AtLeast("1.0.0"), TRUE) }

Levels == 0..MaxLevel

CallAddAssignment(term, level) ==
    /\ Len(assignments) < MaxAssignments
    /\ assignments' =
           AddAssignment(assignments, Assignment(term, level, TRUE, <<>>))
    /\ called' = <<>>
    /\ UNCHANGED <<rootPackage, rootVersion, incompatibilities,
                   partialSolution, pc, caller, changed, scanned, propagation,
                   decision, solveResult, added, solveCalls,
                   perIterationLoopVar, twin, installerVars>>

CallBacktrack(level) ==
    /\ assignments' = Backtrack(assignments, level)
    /\ called' = <<[method |-> "Backtrack", receiver |-> assignments,
                    level |-> level]>>
    /\ UNCHANGED <<rootPackage, rootVersion, incompatibilities,
                   partialSolution, pc, caller, changed, scanned, propagation,
                   decision, solveResult, added, solveCalls,
                   perIterationLoopVar, twin, installerVars>>

CallSatisfies(term) ==
    /\ called' = <<[method |-> "Satisfies", receiver |-> assignments,
                    term |-> term,
                    result |-> Satisfies(assignments, term)]>>
    /\ UNCHANGED <<rootPackage, rootVersion, incompatibilities,
                   partialSolution, pc, caller, changed, scanned, propagation,
                   decision, solveResult, added, solveCalls,
                   perIterationLoopVar, twin, assignments, installerVars>>

\* The incompatibilities given to AlmostSatisfies.
QueriedIncompatibilities ==
    {Incompatibility(terms, <<>>) :
        terms \in UNION {[1..n -> AssignedTerms] : n \in 0..MaxTerms}}

CallAlmostSatisfies(incompatibility) ==
    /\ called' = <<[method |-> "AlmostSatisfies", receiver |-> assignments,
                    incompatibility |-> incompatibility,
                    result |-> AlmostSatisfies(assignments, incompatibility,
                                               perIterationLoopVar)]>>
    /\ UNCHANGED <<rootPackage, rootVersion, incompatibilities,
                   partialSolution, pc, caller, changed, scanned, propagation,
                   decision, solveResult, added, solveCalls,
                   perIterationLoopVar, twin, assignments, installerVars>>

NextPartialSolution ==
    \/ \E term \in AssignedTerms, level \in Levels :
           CallAddAssignment(term, level)
    \/ \E level \in Levels : CallBacktrack(level)
    \/ \E term \in QueriedTerms : CallSatisfies(term)
    \/ \E incompatibility \in QueriedIncompatibilities :
           CallAlmostSatisfies(incompatibility)

SpecPartialSolution == Init /\ [][NextPartialSolution]_vars

(***************************************************************************)
(* The resolution step used on its own: createPriorCause applied to a      *)
(* conflicting incompatibility and a satisfier, which is a derivation      *)
(* whose term is the negation of a term of its cause, as UnitPropagation   *)
(* builds its derivations.                                                 *)
(***************************************************************************)
ResolvedTerms ==
    { Term("foo", Exactly("1.0.0"), FALSE),
      Term("foo", Exactly("1.0.0"), TRUE),
      Term("bar", AtLeast("1.0.0"), FALSE),
      Term("bar", AtLeast("1.0.0"), TRUE) }

ResolvedIncompatibilities ==
    {Incompatibility(terms, <<>>) :
        terms \in UNION {[1..n -> ResolvedTerms] : n \in 0..MaxTerms}}

Satisfiers ==
    UNION {{Assignment(negated(cause.Terms[i]), 0, FALSE, <<cause>>) :
               i \in 1..Len(cause.Terms)} :
           cause \in ResolvedIncompatibilities}

CallCreatePriorCause(incompatibility, satisfier) ==
    /\ called' = <<[method |-> "createPriorCause",
                    incompatibility |-> incompatibility,
                    satisfier |-> satisfier,
                    result |-> createPriorCause(incompatibility, satisfier)]>>
    /\ UNCHANGED <<rootPackage, rootVersion, incompatibilities,
                   partialSolution, pc, caller, changed, scanned, propagation,
                   decision, solveResult, added, solveCalls,
                   perIterationLoopVar, twin, assignments, installerVars>>

\* GenerateErrorReport on the incompatibility createPriorCause has returned.
CallGenerateErrorReport ==
    /\ called # <<>>
    /\ called[1].method = "createPriorCause"
    /\ called' = <<[method |-> "GenerateErrorReport",
                    incompatibility |-> called[1].result,
                    result |-> GenerateErrorReport(called[1].result,
                                                   rootPackage)]>>
    /\ UNCHANGED <<rootPackage, rootVersion, incompatibilities,
                   partialSolution, pc, caller, changed, scanned, propagation,
                   decision, solveResult, added, solveCalls,
                   perIterationLoopVar, twin, assignments, installerVars>>

NextResolution ==
    \/ \E incompatibility \in ResolvedIncompatibilities,
          satisfier \in Satisfiers :
           CallCreatePriorCause(incompatibility, satisfier)
    \/ CallGenerateErrorReport

SpecResolution == Init /\ [][NextResolution]_vars

(***************************************************************************)
(* A WheelInstaller on a virtual environment: wheels are installed one     *)
(* after the other, from a file or from PyPI, and any file system call of  *)
(* an installation may fail.                                               *)
(***************************************************************************)
InitWheel ==
    /\ NewSolver
    /\ NoPartialSolution
    /\ files \in InitialFiles
    /\ install = <<>>

Installs(record) ==
    /\ Len(install) < MaxInstallations
    /\ files' = record.files
    /\ install' = Append(install, record)
    /\ UNCHANGED <<rootPackage, rootVersion, incompatibilities,
                   partialSolution, pc, caller, changed, scanned, propagation,
                   decision, solveResult, added, solveCalls,
                   perIterationLoopVar, twin, partialSolutionVars>>

\* opens: zip.OpenReader and parseWheelMetadata succeed.
InstallWheel(wheel, opens, mkdirFails, failAt) ==
    Installs(IF opens
             THEN installed("InstallWheel", files, VenvPath, wheel, mkdirFails,
                            failAt)
             ELSE notStarted("InstallWheel", files, wheel))

\* downloads: the wheel is found, downloaded to a temporary file (removed
\* when the function returns) and its hash matches.
InstallWheelFromPyPI(wheel, downloads, opens, mkdirFails, failAt) ==
    Installs(IF downloads /\ opens
             THEN installed("InstallWheelFromPyPI", files, VenvPath, wheel,
                            mkdirFails, failAt)
             ELSE notStarted("InstallWheelFromPyPI", files, wheel))

NextWheel ==
    \/ \E wheel \in Wheels, opens, mkdirFails \in BOOLEAN,
          failAt \in 0..MaxFailAt :
           InstallWheel(wheel, opens, mkdirFails, failAt)
    \/ \E wheel \in Wheels, downloads, opens, mkdirFails \in BOOLEAN,
          failAt \in 0..MaxFailAt :
           InstallWheelFromPyPI(wheel, downloads, opens, mkdirFails, failAt)

SpecWheel == InitWheel /\ [][NextWheel]_vars

(***************************************************************************)
(* What the claims speak of.                                               *)
(***************************************************************************)
Returned(result) == result \in {"solution", "error"}

\* Solve has been called once, on a Solver that held nothing but the
\* incompatibilities its caller had added.
FreshSolve ==
    /\ Len(solveCalls) = 1
    /\ solveCalls[1].ps = <<>>
    /\ solveCalls[1].store = added

SolveRunning == FreshSolve /\ solveResult = "running"

HasDecision(ps, package) ==
    \E i \in 1..Len(ps) : ps[i].IsDecision /\ ps[i].Term.Package = package

OneDecisionPerPackage ==
    \A i, j \in 1..Len(partialSolution) :
        /\ partialSolution[i].IsDecision
        /\ partialSolution[j].IsDecision
        /\ partialSolution[i].Term.Package = partialSolution[j].Term.Package
        => i = j

SolveFoundRootDecided ==
    \E k \in 1..Len(solveCalls) : HasDecision(solveCalls[k].ps, rootPackage)

RootOnly == Incompatibility(<<Term(rootPackage, Exactly(rootVersion), FALSE)>>, <<>>)
NotRoot == Incompatibility(<<Term(rootPackage, Exactly(rootVersion), TRUE)>>, <<>>)

InStore(incompatibility) ==
    \E k \in 1..Len(incompatibilities) : incompatibilities[k] = incompatibility

PackagesNamed(list) ==
    UNION {{list[k].Terms[t].Package : t \in 1..Len(list[k].Terms)} :
           k \in 1..Len(list)}

C2_SolveDeterministic ==
    Returned(solveResult) /\ Returned(twin.solveResult)
    => /\ partialSolution = twin.partialSolution
       /\ solveResult = twin.solveResult

(***************************************************************************)
(* C4: the trail holds at most one decision per package, in every state    *)
(* any sequence of Solve, AddIncompatibility, UnitPropagation and          *)
(* DecisionMaking calls reaches.                                           *)
(***************************************************************************)
C4_OneDecisionPerPackage == OneDecisionPerPackage

(***************************************************************************)
(* C4, amended: the trail holds at most one decision per package in every  *)
(* state such calls reach, as long as Solve was never called while the     *)
(* trail already held a decision for the root package.                     *)
(***************************************************************************)
C4_OneDecisionUnlessSolveOnDecidedRoot ==
    ~SolveFoundRootDecided => OneDecisionPerPackage

\* DecisionMaking has added a decision next to the root decision of Solve.
C4_Witness ==
    /\ ~SolveFoundRootDecided
    /\ HasDecision(partialSolution, rootPackage)
    /\ HasDecision(partialSolution, "dependency")
    /\ decision # <<>>
    /\ decision[1].NextPackage = "dependency"

(***************************************************************************)
(* C5: the cause of every derivation on the trail, evaluated against the   *)
(* trail before the derivation, has exactly one Inconclusive term and all  *)
(* its other terms Satisfied, and the derivation is the negation of that   *)
(* one term.                                                               *)
(***************************************************************************)
AlmostSatisfiedBy(prefix, cause, term) ==
    \E k \in 1..Len(cause.Terms) :
        /\ Satisfies(prefix, cause.Terms[k]) = Inconclusive
        /\ \A m \in 1..Len(cause.Terms) :
               m # k => Satisfies(prefix, cause.Terms[m]) = Satisfied
        /\ term = negated(cause.Terms[k])

PropagationFailed ==
    /\ pc = "idle"
    /\ propagation # <<>>
    /\ ~propagation[1].Success
    /\ caller = "Solve" => solveResult = "error"

C6_RootCauseConflictFails ==
    \A k \in 1..Len(scanned) :
        /\ scanned[k].Result = Satisfied
        /\ isRootCause(scanned[k].Incompatibility, rootPackage)
        => PropagationFailed

(***************************************************************************)
(* C7: a violated incompatibility that is not a root cause never makes     *)
(* UnitPropagation return Success = false nor Solve return an error.       *)
(***************************************************************************)
C7_OtherConflictsRecover ==
    \A k \in 1..Len(scanned) :
        /\ scanned[k].Result = Satisfied
        /\ ~isRootCause(scanned[k].Incompatibility, rootPackage)
        => ~(pc = "idle" /\ propagation # <<>> /\ ~propagation[1].Success)

C10_TrailNamesOnlyGivenPackages ==
    FreshSolve
    => \A i \in 1..Len(partialSolution) :
           partialSolution[i].Term.Package
               \in {rootPackage} \cup PackagesNamed(added)

(***************************************************************************)
(* C11: the store is append-only: in every step of AddIncompatibility,     *)
(* Solve, UnitPropagation (conflict resolution and its Backtrack included) *)
(* and DecisionMaking, the store before the step is an unchanged prefix of *)
(* the store after it.                                                     *)
(***************************************************************************)
IsPrefix(s, t) == Len(s) <= Len(t) /\ s = SubSeq(t, 1, Len(s))

C11_StoreIsAppendOnly ==
    [][IsPrefix(incompatibilities, incompatibilities')]_vars

\* The store has grown by Solve's and by DecisionMaking's incompatibilities,
\* and the last pass of UnitPropagation resolved a conflict and backtracked.
C11_Witness ==
    /\ Len(incompatibilities) >= Len(added) + 2
    /\ IsPrefix(added, incompatibilities)
    /\ decision # <<>>
    /\ \E k \in 1..Len(scanned) : scanned[k].Resolved # <<>>

(***************************************************************************)
(* C12: decision levels never decrease along the trail: the root decision  *)
(* Solve appends is at level 0 after assignments at level 0, every other   *)
(* decision is one level above the assignment before it, every derivation  *)
(* is at the level of the assignment before it (0 on an empty trail), and  *)
(* GetDecisionLevel is the highest level on the trail.                     *)
(***************************************************************************)
LevelBefore(ps, i) == IF i = 1 THEN 0 ELSE ps[i - 1].DecisionLevel

HighestLevel(ps) ==
    IF Len(ps) = 0 THEN 0
    ELSE CHOOSE d \in {ps[i].DecisionLevel : i \in 1..Len(ps)} :
             \A i \in 1..Len(ps) : ps[i].DecisionLevel <= d

LevelsNeverDecrease ==
    /\ \A i \in 1..Len(partialSolution) :
           LET a == partialSolution[i]
               before == LevelBefore(partialSolution, i)
           IN  IF a.IsDecision
               THEN \/ a.DecisionLevel = before + 1
                    \/ /\ a = rootAssignment(rootPackage, rootVersion)
                       /\ before = 0
               ELSE a.DecisionLevel = before
    /\ \A i, j \in 1..Len(partialSolution) :
           i < j => partialSolution[i].DecisionLevel
                        <= partialSolution[j].DecisionLevel
    /\ GetDecisionLevel(partialSolution) = HighestLevel(partialSolution)

C12_LevelsNeverDecrease == LevelsNeverDecrease

\* Solve was called on a trail that held an assignment above level 0.
SolveFoundLevelAboveZero ==
    \E k \in 1..Len(solveCalls) :
        \E i \in 1..Len(solveCalls[k].ps) :
            solveCalls[k].ps[i].DecisionLevel > 0

(***************************************************************************)
(* C12, amended: the same, as long as Solve was never called on a trail    *)
(* that already held an assignment above level 0 (Solve appends its root   *)
(* decision at level 0 whatever the trail holds).                          *)
(***************************************************************************)
C12_LevelsNeverDecreaseUnlessSolveAboveZero ==
    ~SolveFoundLevelAboveZero => LevelsNeverDecrease

\* A derivation at level 0, a decision of DecisionMaking at level 1 and a
\* derivation of UnitPropagation at level 1 after it.
C12_Witness ==
    /\ ~SolveFoundLevelAboveZero
    /\ \E i, j, k \in 1..Len(partialSolution) :
           /\ i < j /\ j < k
           /\ ~partialSolution[i].IsDecision
           /\ partialSolution[i].DecisionLevel = 0
           /\ partialSolution[j].IsDecision
           /\ partialSolution[j].DecisionLevel = 1
           /\ ~partialSolution[k].IsDecision
           /\ partialSolution[k].DecisionLevel = 1

(***************************************************************************)
(* C13: after Backtrack(L) on a trail built with AddAssignment, no         *)
(* assignment above level L is left and the assignments at level L or      *)
(* below are all left, in their order.                                     *)
(***************************************************************************)
Backtracked == called # <<>> /\ called[1].method = "Backtrack"

UpToLastAtMost(ps, level) ==
    LET low == {i \in 1..Len(ps) : ps[i].DecisionLevel <= level}
    IN  IF low = {} THEN 0 ELSE CHOOSE i \in low : \A j \in low : j <= i

LastInstall == install[Len(install)]

InstallFailed == install # <<>> /\ LastInstall.started /\ LastInstall.err

C14_FailedInstallRestoresFiles ==
    InstallFailed
    => /\ LastInstall.before \subseteq files
       /\ files \subseteq LastInstall.before

(***************************************************************************)
(* C15: whenever resolveConflict returns an incompatibility for a violated *)
(* one, the trail left after the backtrack almost satisfies it (one term   *)
(* Inconclusive, the others Satisfied), so that UnitPropagation appends a  *)
(* derivation from it at once.                                             *)
(***************************************************************************)
C15_ResolvedConflictDerives ==
    \A k \in 1..Len(scanned) :
        scanned[k].Resolved # <<>> => scanned[k].Derived # <<>>

(***************************************************************************)
(* C16: in every pass of UnitPropagation in which conflict resolution      *)
(* returns an incompatibility, that incompatibility is appended to the     *)
(* store during the pass (so after the violated one, which the store       *)
(* already held).                                                          *)
(***************************************************************************)
C16_ResolvedConflictIsStored ==
    [][pc = "UnitPropagation"
       => \A k \in 1..Len(scanned') :
              scanned'[k].Resolved # <<>>
              => \E j \in Len(incompatibilities) + 1..Len(incompatibilities') :
                     incompatibilities'[j] = scanned'[k].Resolved[1]]_vars

(***************************************************************************)
(* C17: when a pass of UnitPropagation has resolved a conflict and derived *)
(* a term from the incompatibility resolveConflict returned, that          *)
(* incompatibility is the last one the pass evaluates and 'changed' is     *)
(* left holding exactly the package of the derived term.                   *)
(***************************************************************************)
C17_NothingEvaluatedAfterResolvedConflict ==
    \A k \in 1..Len(scanned) :
        scanned[k].Resolved # <<>> /\ scanned[k].Derived # <<>>
        => /\ k = Len(scanned)
           /\ changed = {scanned[k].Derived[1].Package}

(***************************************************************************)
(* What a version constraint allows, among three versions in their order;  *)
(* what the positive assignments of a trail for a package allow together.  *)
(***************************************************************************)
Versions == <<"0.5.0", "1.0.0", "2.0.0">>

Rank(version) == CHOOSE n \in 1..Len(Versions) : Versions[n] = version

Allowed(vc) ==
    {Versions[n] : n \in
        {n \in 1..Len(Versions) :
            IF IsSpecific(vc) THEN Versions[n] = vc.Specific
            ELSE /\ vc.Min # "" => n >= Rank(vc.Min)
                 /\ vc.Max # "" => n < Rank(vc.Max)}}

AllowedByTrail(ps, package) ==
    {v \in {Versions[n] : n \in 1..Len(Versions)} :
        \A i \in 1..Len(ps) :
            ps[i].Term.Package = package /\ ~ps[i].Term.Negated
            => v \in Allowed(ps[i].Term.Version)}

\* Satisfies was called with a term of the given polarity, on a trail that
\* holds positive assignments only, which allow some version together.
AskedSatisfies(isNegated) ==
    /\ called # <<>>
    /\ called[1].method = "Satisfies"
    /\ called[1].term.Negated = isNegated
    /\ \A i \in 1..Len(called[1].receiver) :
           ~called[1].receiver[i].Term.Negated
    /\ AllowedByTrail(called[1].receiver, called[1].term.Package) # {}

(***************************************************************************)
(* C19: Satisfies on a positive term P in S returns Satisfied exactly when *)
(* what the positive assignments for P allow lies inside S, Contradicted   *)
(* exactly when it is disjoint from S, and Inconclusive otherwise.         *)
(***************************************************************************)
C19_PositiveTermBySubsetAndDisjointness ==
    AskedSatisfies(FALSE)
    => LET acc == AllowedByTrail(called[1].receiver, called[1].term.Package)
           S == Allowed(called[1].term.Version)
       IN  called[1].result =
               IF acc \subseteq S THEN Satisfied
               ELSE IF acc \cap S = {} THEN Contradicted
               ELSE Inconclusive

(***************************************************************************)
(* C20: Satisfies on a negative term not (P in S) returns Contradicted     *)
(* when a positive assignment for P on the trail allows only versions of   *)
(* S, Satisfied when what the positive assignments for P allow is disjoint *)
(* from S, and Inconclusive otherwise.                                     *)
(***************************************************************************)
C20_NegativeTermBySubsetAndDisjointness ==
    AskedSatisfies(TRUE)
    => LET ps == called[1].receiver
           acc == AllowedByTrail(ps, called[1].term.Package)
           S == Allowed(called[1].term.Version)
       IN  called[1].result =
               IF \E i \in 1..Len(ps) :
                      /\ ps[i].Term.Package = called[1].term.Package
                      /\ Allowed(ps[i].Term.Version) \subseteq S
               THEN Contradicted
               ELSE IF acc \cap S = {} THEN Satisfied
               ELSE Inconclusive

(***************************************************************************)
(* C18: once a derivation is on the trail, its cause evaluates to          *)
(* Contradicted against the trail, and the trail never holds the same      *)
(* derivation with the same cause twice.                                   *)
(***************************************************************************)
C18_DerivationContradictsItsCause ==
    /\ \A i \in 1..Len(partialSolution) :
           ~partialSolution[i].IsDecision /\ partialSolution[i].Cause # <<>>
           => SatisfiesIncompatibility(partialSolution,
                                       partialSolution[i].Cause[1])
                  = Contradicted
    /\ \A i, j \in 1..Len(partialSolution) :
           i < j /\ ~partialSolution[i].IsDecision
           => partialSolution[i] # partialSolution[j]

C22_PriorCauseOmitsThePivot ==
    called # <<>> /\ called[1].method = "createPriorCause"
    => \A i \in 1..Len(called[1].result.Terms) :
           called[1].result.Terms[i].Package
               # called[1].satisfier.Term.Package

(***************************************************************************)
(* C23: every incompatibility the solver constructs has at most one term   *)
(* per package. (The incompatibilities a caller adds have one term per     *)
(* package, so the store is checked as a whole.)                           *)
(***************************************************************************)
OneTermPerPackage(incompatibility) ==
    \A i, j \in 1..Len(incompatibility.Terms) :
        incompatibility.Terms[i].Package = incompatibility.Terms[j].Package
        => i = j

C23_ConstructedHaveOneTermPerPackage ==
    \A k \in 1..Len(incompatibilities) :
        OneTermPerPackage(incompatibilities[k])

(***************************************************************************)
(* C24: the version DecisionMaking decides for a package is allowed by     *)
(* every positive term the trail holds for the package when the decision   *)
(* is appended, and excluded by no negative term it holds for the package. *)
(* (The decisions of DecisionMaking are the ones above level 0; what       *)
(* precedes an assignment on the trail is what the trail held when it was  *)
(* appended.)                                                              *)
(***************************************************************************)
C24_DecidedVersionIsInAccumulatedSet ==
    \A i \in 1..Len(partialSolution) :
        partialSolution[i].IsDecision /\ partialSolution[i].DecisionLevel > 0
        => \A j \in 1..(i - 1) :
               partialSolution[j].Term.Package
                   = partialSolution[i].Term.Package
               => (partialSolution[i].Term.Version.Specific
                       \in Allowed(partialSolution[j].Term.Version))
                  <=> ~partialSolution[j].Term.Negated

(***************************************************************************)
(* C25: DecisionMaking returns Success = true exactly when no package has  *)
(* a positive derivation on the trail without a decision; it then leaves   *)
(* the trail and the store as they are. Otherwise the package it returns   *)
(* as NextPackage, and decides, is one with a positive derivation and no   *)
(* decision.                                                               *)
(***************************************************************************)
Pending(ps) ==
    {ps[i].Term.Package : i \in
        {i \in 1..Len(ps) : /\ ~ps[i].IsDecision
                            /\ ~ps[i].Term.Negated
                            /\ ~HasDecision(ps, ps[i].Term.Package)}}

C25_SuccessIffNothingPending ==
    [][CallDecisionMaking
       => /\ decision'[1].Success <=> Pending(partialSolution) = {}
          /\ decision'[1].Success
              => /\ partialSolution' = partialSolution
                 /\ incompatibilities' = incompatibilities
          /\ ~decision'[1].Success
              => /\ decision'[1].NextPackage \in Pending(partialSolution)
                 /\ Len(partialSolution') = Len(partialSolution) + 1
                 /\ partialSolution'[Len(partialSolution')].IsDecision
                 /\ partialSolution'[Len(partialSolution')].Term.Package
                        = decision'[1].NextPackage]_vars

\* DecisionMaking has decided a package, and a later call of it has found
\* nothing pending and returned Success = true.
C25_Witness ==
    /\ decision # <<>>
    /\ decision[1].Success
    /\ \E i \in 1..Len(partialSolution) :
           partialSolution[i].IsDecision /\ partialSolution[i].DecisionLevel > 0

(***************************************************************************)
(* C26: the error report of a derived incompatibility (one with a cause)   *)
(* has more than one line: lines for its cause, and then the 'Because'     *)
(* line of the derived incompatibility.                                    *)
(***************************************************************************)
C26_ReportTraversesTheCauses ==
    /\ called # <<>>
    /\ called[1].method = "GenerateErrorReport"
    /\ called[1].incompatibility.Cause # <<>>
    => LET lines == called[1].result.Lines
       IN  /\ Len(lines) > 1
           /\ lines[Len(lines)]
                  = formatDerivedIncompatibility(
                        called[1].incompatibility,
                        called[1].incompatibility.Cause[1], rootPackage)

(***************************************************************************)
(* C27: for every decision P@v on the trail, the root decision included,   *)
(* the store holds an incompatibility with the positive term P == v and a  *)
(* negative term on a dependency; the incompatibility is in the store when *)
(* the decision is appended to the trail; and it stays in the store, also  *)
(* when a backtrack removes the decision.                                  *)
(***************************************************************************)
HasDependenciesOf(store, term) ==
    \E k \in 1..Len(store) :
        /\ \E i \in 1..Len(store[k].Terms) :
               /\ store[k].Terms[i].Package = term.Package
               /\ store[k].Terms[i].Version = term.Version
               /\ ~store[k].Terms[i].Negated
        /\ \E i \in 1..Len(store[k].Terms) : store[k].Terms[i].Negated

DecisionsHaveDependencies(ps, store) ==
    \A i \in 1..Len(ps) :
        ps[i].IsDecision => HasDependenciesOf(store, ps[i].Term)

\* DecisionMaking appends its decision to a store that holds the
\* dependencies of the decision.
DecisionMakingStoresFirst ==
    CallDecisionMaking /\ ~decision'[1].Success
    => HasDependenciesOf(
           DecisionMaking(partialSolution, incompatibilities).decidedWith,
           partialSolution'[Len(partialSolution')].Term)

\* Solve appends the root decision to a store that holds the dependencies
\* of the root.
SolveStoresFirst ==
    Solve
    => HasDependenciesOf(
           initializeRootPackage(partialSolution, incompatibilities,
                                 rootPackage, rootVersion).decidedWith,
           rootAssignment(rootPackage, rootVersion).Term)

C27_DependenciesStoredBeforeDecision ==
    [][/\ DecisionsHaveDependencies(partialSolution', incompatibilities')
       /\ DecisionMakingStoresFirst
       /\ SolveStoresFirst
       /\ IsPrefix(incompatibilities, incompatibilities')]_vars

(***************************************************************************)
(* C27, amended: as above, except that Solve appends the root decision     *)
(* first and the incompatibility of the root after it, in the same call.   *)
(***************************************************************************)
C27_DependenciesStoredWithDecision ==
    [][/\ DecisionsHaveDependencies(partialSolution', incompatibilities')
       /\ DecisionMakingStoresFirst
       /\ IsPrefix(incompatibilities, incompatibilities')]_vars

\* A backtrack has removed the decision of DecisionMaking on "dependency",
\* and the incompatibility DecisionMaking stored for it is in the store.
C27_Witness ==
    /\ InStore(dependencyIncompatibility("dependency", "1.0.0"))
    /\ ~HasDecision(partialSolution, "dependency")
    /\ HasDecision(partialSolution, rootPackage)

(***************************************************************************)
(* C28: a call of DecisionMaking that finds a pending package appends      *)
(* exactly one incompatibility to the store and exactly one decision to    *)
(* the trail, and changes nothing else of the solver.                      *)
(***************************************************************************)
C28_DecisionMakingAppendsOneOfEach ==
    [][CallDecisionMaking /\ Pending(partialSolution) # {}
       => /\ Len(partialSolution') = Len(partialSolution) + 1
          /\ IsPrefix(partialSolution, partialSolution')
          /\ partialSolution'[Len(partialSolution')].IsDecision
          /\ Len(incompatibilities') = Len(incompatibilities) + 1
          /\ IsPrefix(incompatibilities, incompatibilities')
          /\ UNCHANGED <<rootPackage, rootVersion>>]_vars

\* DecisionMaking has just decided a package: its decision is the last
\* assignment of the trail and its incompatibility the last of the store.
C28_Witness ==
    /\ decision # <<>>
    /\ ~decision[1].Success
    /\ Len(partialSolution) > 0
    /\ Len(incompatibilities) > 0
    /\ LET last == partialSolution[Len(partialSolution)]
       IN  /\ last.IsDecision
           /\ last.Term.Package = decision[1].NextPackage
           /\ incompatibilities[Len(incompatibilities)]
                  = dependencyIncompatibility(last.Term.Package,
                                              last.Term.Version.Specific)

(***************************************************************************)
(* C29: when resolveConflict has returned an incompatibility, the trail    *)
(* holds only assignments at decision level 0 and GetDecisionLevel is 0.   *)
(* (Checked at the end of the pass of UnitPropagation that called          *)
(* resolveConflict: what the pass appends after the backtrack is at the    *)
(* level of the last assignment.)                                          *)
(***************************************************************************)
ResolvedInPass(log) == \E k \in 1..Len(log) : log[k].Resolved # <<>>

C30_RootDecisionIsFirst ==
    solveResult = "running"
    => /\ Len(partialSolution) > 0
       /\ partialSolution[1] = rootAssignment(rootPackage, rootVersion)

(***************************************************************************)
(* C30, amended: while Solve runs, the trail begins with the assignments   *)
(* it held when Solve was called, and the root decision is the assignment  *)
(* after them (the first of the trail when Solve was called on an empty    *)
(* trail).                                                                 *)
(***************************************************************************)
C30_RootDecisionFollowsWhatSolveFound ==
    solveResult = "running"
    => LET found == solveCalls[Len(solveCalls)].ps
       IN  /\ Len(partialSolution) > Len(found)
           /\ SubSeq(partialSolution, 1, Len(found)) = found
           /\ partialSolution[Len(found) + 1]
                  = rootAssignment(rootPackage, rootVersion)

\* Solve, called on an empty trail, is running, its last pass of
\* UnitPropagation has resolved a conflict, and the root decision is the
\* first assignment of the trail.
C30_Witness ==
    /\ solveResult = "running"
    /\ solveCalls[Len(solveCalls)].ps = <<>>
    /\ ResolvedInPass(scanned)
    /\ partialSolution[1] = rootAssignment(rootPackage, rootVersion)

\* Solve never returns a solution (no claim: the reason C3 has no witness).
SolveNeverReturnsSolution == solveResult # "solution"

\* Once the first pass of UnitPropagation inside Solve is over, "dependency"
\* is in 'changed' for as long as Solve runs: the loop of UnitPropagation
\* never finds 'changed' empty, so Solve leaves it only with an error (no
\* claim: why the runs that refute C1, C8 and C9 go on beyond any MaxTrail).
SolveKeepsDependencyChanged ==
    SolveRunning /\ Len(partialSolution) > 1 => "dependency" \in changed

====
